---- MODULE Spec2Model ----
(***************************************************************************)
(* State-machine model of setup.py of osqp-python: module-level platform   *)
(* selection, prepare_codegen (the codegen snapshot), and the CMakeBuild   *)
(* build_ext command run by setup() over ext_modules.                      *)
(***************************************************************************)
EXTENDS Integers, Sequences, FiniteSets, TLC

VARIABLES
    os,                \* platform.system()
    maxsize,           \* sys.maxsize, four base-2^16 limbs, most significant first
    long,              \* args.long
    debug,             \* args.debug
    cmakeInstalled,    \* whether a cmake executable can be started
    pc,                \* position of the script
    run,               \* number of the current invocation of the script
    cmake_args, cmake_build_flags, lib_name, lib_subdir, compile_args, libraries,
    tree,              \* solver source tree: directory -> [exists, files]
    destDirs,          \* directories existing under src/osqp/codegen/sources
    destFiles,         \* files under it: [sub, name, from]
    cfiles, hfiles,    \* locals of prepare_codegen: sequences of groups of [from, name]
    prevSnap,          \* destFiles as the previous invocation's prepare_codegen left them
    extIdx,            \* index into ext_modules of the extension being built
    src_dir, build_dir,\* arguments of build_extension_legacy
    cwd,               \* process working directory
    buildDirs,         \* existing build directories (paths from current_dir)
    archives,          \* static archives existing under build directories
    libCopies,         \* archives copied into extension source directories
    cfgExit, bldExit,  \* exit status of the last configure / build command
    events,            \* build events of this invocation: [ext, kind]
    error,             \* exception that ended this invocation, or "none"
    failedAt           \* pc at which it was raised

vars == <<os, maxsize, long, debug, cmakeInstalled, pc, run,
          cmake_args, cmake_build_flags, lib_name, lib_subdir, compile_args, libraries,
          tree, destDirs, destFiles, cfiles, hfiles, prevSnap,
          extIdx, src_dir, build_dir, cwd, buildDirs, archives, libCopies,
          cfgExit, bldExit, events, error, failedAt>>

envVars   == <<os, maxsize, long, debug, cmakeInstalled, tree>>
profVars  == <<cmake_args, cmake_build_flags, lib_name, lib_subdir, compile_args, libraries>>
snapVars  == <<destDirs, destFiles, cfiles, hfiles>>
buildVars == <<extIdx, src_dir, build_dir, cwd, buildDirs, archives, libCopies,
               cfgExit, bldExit, events>>

\* Number of successive invocations of the script that are explored.
MaxRuns == 2

Range(s) == {s[i] : i \in DOMAIN s}

\* os.path.join
Join(a, b) == a \o "/" \o b

\* str.endswith
EndsWith(f, suf) ==
    Len(f) >= Len(suf) /\ SubSeq(f, Len(f) - Len(suf) + 1, Len(f)) = suf

(***************************************************************************)
(* Platform selection (module level)                                       *)
(***************************************************************************)
MaxSize32 == <<0, 0, 32767, 65535>>          \* 2^31 - 1
MaxSize64 == <<32767, 65535, 65535, 65535>>  \* 2^63 - 1

\* sys.maxsize // 2 ** 32 : the two most significant limbs
FloorDiv2p32(m) == m[1] * 65536 + m[2]

\* sys.maxsize // 2 ** 32 > 0
Is64Bit(m) == FloorDiv2p32(m) > 0

\* cmake_args[-1] += s
AppendToLast(args, s) == [args EXCEPT ![Len(args)] = @ \o s]

Raise(e) ==
    /\ error' = e
    /\ failedAt' = pc
    /\ pc' = "exit"

NoRaise == UNCHANGED <<error, failedAt>>

SelectPlatform ==
    /\ pc = "select_platform"
    /\ IF os = "Windows"
       THEN /\ cmake_args' =
                 IF Is64Bit(maxsize)
                 THEN AppendToLast(<<"-DUNITTESTS=OFF", "-G", "Visual Studio 14 2015">>, " Win64")
                 ELSE <<"-DUNITTESTS=OFF", "-G", "Visual Studio 14 2015">>
            /\ cmake_build_flags' = <<"--config", "Release">>
            /\ lib_name' = "osqp.lib"
            /\ lib_subdir' = <<"Release">>
       ELSE /\ cmake_args' = <<"-DUNITTESTS=OFF", "-G", "Unix Makefiles">>
            /\ cmake_build_flags' = <<>>
            /\ lib_name' = "libosqp.a"
            /\ lib_subdir' = <<>>
    /\ pc' = "long_flag"
    /\ NoRaise
    /\ UNCHANGED <<envVars, run, compile_args, libraries, snapVars, prevSnap, buildVars>>

LongFlag_Inverted ==
    /\ pc = "long_flag"
    /\ cmake_args' = cmake_args \o <<"-DPYTHON=ON">>
                       \o (IF long THEN <<"-DDLONG=OFF">> ELSE <<>>)
                       \o <<"-DPYTHON_INCLUDE_DIRS=python_inc">>
    /\ pc' = "optimizer"
    /\ NoRaise
    /\ UNCHANGED <<envVars, run, cmake_build_flags, lib_name, lib_subdir, compile_args,
                   libraries, snapVars, prevSnap, buildVars>>

LongFlag ==
    /\ pc = "long_flag"
    /\ cmake_args' = cmake_args \o <<"-DPYTHON=ON">>
                       \o (IF ~long THEN <<"-DDLONG=OFF">> ELSE <<>>)
                       \o <<"-DPYTHON_INCLUDE_DIRS=python_inc">>
    /\ pc' = "optimizer"
    /\ NoRaise
    /\ UNCHANGED <<envVars, run, cmake_build_flags, lib_name, lib_subdir, compile_args,
                   libraries, snapVars, prevSnap, buildVars>>

OptimizerFlags ==
    /\ pc = "optimizer"
    /\ compile_args' = (IF os # "Windows" THEN <<"-O3">> ELSE <<>>)
                         \o (IF debug THEN <<"-g">> ELSE <<>>)
    /\ cmake_args' = cmake_args \o (IF debug THEN <<"-DCMAKE_BUILD_TYPE=Debug">> ELSE <<>>)
    /\ pc' = "libraries"
    /\ NoRaise
    /\ UNCHANGED <<envVars, run, cmake_build_flags, lib_name, lib_subdir, libraries,
                   snapVars, prevSnap, buildVars>>

ExternalLibraries ==
    /\ pc = "libraries"
    /\ libraries' = (IF os = "Linux" THEN <<"rt">> ELSE <<>>)
                      \o (IF os = "Windows" THEN <<"legacy_stdio_definitions">> ELSE <<>>)
    /\ pc' = "pc_root"
    /\ NoRaise
    /\ UNCHANGED <<envVars, run, cmake_args, cmake_build_flags, lib_name, lib_subdir,
                   compile_args, snapVars, prevSnap, buildVars>>

(***************************************************************************)
(* prepare_codegen(osqp_dir, qdldl_dir)                                    *)
(***************************************************************************)
\* Directories of the solver source tree that prepare_codegen reads.
OsqpSrc       == "osqp_sources/src"
OsqpInclude   == "osqp_sources/include"
OsqpConfigure == "osqp_sources/configure"
QdldlDir      == "osqp_sources/lin_sys/direct/qdldl"
QdSrc         == "osqp_sources/lin_sys/direct/qdldl/qdldl_sources/src"
QdInclude     == "osqp_sources/lin_sys/direct/qdldl/qdldl_sources/include"
QdConfigure   == "osqp_sources/lin_sys/direct/qdldl/qdldl_sources/configure"

SourceDirs == {OsqpSrc, OsqpInclude, OsqpConfigure, QdldlDir, QdSrc, QdInclude, QdConfigure}

\* os.path.exists / os.listdir on the source tree
DirExists(d) == tree[d].exists
ListDir(d)   == tree[d].files

CDenylist == {"cs.c", "ctrlc.c", "polish.c", "lin_sys.c"}
HDenylist == {"qdldl_types.h", "osqp_configure.h", "cs.h", "ctrlc.h", "polish.h", "lin_sys.h"}

Group(d, names) == {[from |-> d, name |-> f] : f \in names}

\* the three list comprehensions that make cfiles
CFilesOsqp   == Group(OsqpSrc, {f \in ListDir(OsqpSrc) : EndsWith(f, ".c") /\ f \notin CDenylist})
CFilesQdldl  == Group(QdldlDir, {f \in ListDir(QdldlDir) : EndsWith(f, ".c")})
CFilesQdSrc  == Group(QdSrc, ListDir(QdSrc))

\* the three list comprehensions that make hfiles
HFilesOsqp   == Group(OsqpInclude,
                      {f \in ListDir(OsqpInclude) : EndsWith(f, ".h") /\ f \notin HDenylist})
HFilesQdldl  == Group(QdldlDir, {f \in ListDir(QdldlDir) : EndsWith(f, ".h")})
HFilesQdInc  == Group(QdInclude, {f \in ListDir(QdInclude) : EndsWith(f, ".h")})

\* shutil.copy(f, dir) for every f of one group: a file of the same name is overwritten
CopyGroup(files, g, sub) ==
    {x \in files : ~(x.sub = sub /\ x.name \in {f.name : f \in g})}
        \cup {[sub |-> sub, name |-> f.name, from |-> f.from] : f \in g}

\* for f in groups: copy(f, sub), in list order
RECURSIVE CopyFiles(_, _, _)
CopyFiles(files, groups, sub) ==
    IF groups = <<>> THEN files
    ELSE CopyFiles(CopyGroup(files, Head(groups), sub), Tail(groups), sub)

\* sh.rmtree(dir) of a subdirectory of the destination root
RmSubFiles(files, sub) == {x \in files : x.sub # sub}

\* if os.path.exists(d): sh.rmtree(d) ; os.makedirs(d)   for a subdirectory d
RecreateSub(sub) ==
    /\ destDirs' = destDirs \cup {"root", sub}
    /\ destFiles' = IF sub \in destDirs THEN RmSubFiles(destFiles, sub) ELSE destFiles

PcVars == <<envVars, run, profVars, prevSnap, buildVars>>

RecreateRoot_KeepExisting ==
    /\ pc = "pc_root"
    /\ destDirs' = destDirs \cup {"root"}
    /\ destFiles' = destFiles
    /\ pc' = "pc_cfiles"
    /\ NoRaise
    /\ UNCHANGED <<PcVars, cfiles, hfiles>>

RecreateRoot ==
    /\ pc = "pc_root"
    /\ destDirs' = {"root"}
    /\ destFiles' = IF "root" \in destDirs THEN {} ELSE destFiles
    /\ pc' = "pc_cfiles"
    /\ NoRaise
    /\ UNCHANGED <<PcVars, cfiles, hfiles>>

ListCFiles ==
    /\ pc = "pc_cfiles"
    /\ IF DirExists(OsqpSrc) /\ DirExists(QdldlDir) /\ DirExists(QdSrc)
       THEN /\ cfiles' = <<CFilesOsqp, CFilesQdldl, CFilesQdSrc>>
            /\ pc' = "pc_cdir"
            /\ NoRaise
       ELSE /\ Raise("FileNotFoundError")
            /\ UNCHANGED cfiles
    /\ UNCHANGED <<PcVars, destDirs, destFiles, hfiles>>

RecreateCDir ==
    /\ pc = "pc_cdir"
    /\ RecreateSub("src")
    /\ pc' = "pc_copy_c"
    /\ NoRaise
    /\ UNCHANGED <<PcVars, cfiles, hfiles>>

CopyCFiles ==
    /\ pc = "pc_copy_c"
    /\ destFiles' = CopyFiles(destFiles, cfiles, "src")
    /\ pc' = "pc_hfiles"
    /\ NoRaise
    /\ UNCHANGED <<PcVars, destDirs, cfiles, hfiles>>

ListHFiles ==
    /\ pc = "pc_hfiles"
    /\ IF DirExists(OsqpInclude) /\ DirExists(QdldlDir) /\ DirExists(QdInclude)
       THEN /\ hfiles' = <<HFilesOsqp, HFilesQdldl, HFilesQdInc>>
            /\ pc' = "pc_hdir"
            /\ NoRaise
       ELSE /\ Raise("FileNotFoundError")
            /\ UNCHANGED hfiles
    /\ UNCHANGED <<PcVars, destDirs, destFiles, cfiles>>

RecreateHDir ==
    /\ pc = "pc_hdir"
    /\ RecreateSub("include")
    /\ pc' = "pc_copy_h"
    /\ NoRaise
    /\ UNCHANGED <<PcVars, cfiles, hfiles>>

CopyHFiles ==
    /\ pc = "pc_copy_h"
    /\ destFiles' = CopyFiles(destFiles, hfiles, "include")
    /\ pc' = "pc_confdir"
    /\ NoRaise
    /\ UNCHANGED <<PcVars, destDirs, cfiles, hfiles>>

RecreateConfigureDir ==
    /\ pc = "pc_confdir"
    /\ RecreateSub("configure")
    /\ pc' = "pc_copy_conf"
    /\ NoRaise
    /\ UNCHANGED <<PcVars, cfiles, hfiles>>

\* whether copy(os.path.join(d, f), ...) finds its source file
HasFile(d, f) == DirExists(d) /\ f \in ListDir(d)

\* for f in configure_files: copy(f, configure dir); the first missing file raises
CopyConfigureFiles ==
    /\ pc = "pc_copy_conf"
    /\ LET first  == Group(OsqpConfigure, {"osqp_configure.h.in"})
           second == Group(QdConfigure, {"qdldl_types.h.in"})
       IN  IF ~HasFile(OsqpConfigure, "osqp_configure.h.in")
           THEN /\ Raise("FileNotFoundError")
                /\ UNCHANGED destFiles
           ELSE IF ~HasFile(QdConfigure, "qdldl_types.h.in")
           THEN /\ Raise("FileNotFoundError")
                /\ destFiles' = CopyGroup(destFiles, first, "configure")
           ELSE /\ destFiles' = CopyFiles(destFiles, <<first, second>>, "configure")
                /\ pc' = "pc_cmake_src"
                /\ NoRaise
    /\ UNCHANGED <<PcVars, destDirs, cfiles, hfiles>>

CopyCMakeSrc ==
    /\ pc = "pc_cmake_src"
    /\ IF HasFile(OsqpSrc, "CMakeLists.txt")
       THEN /\ destFiles' = CopyGroup(destFiles, Group(OsqpSrc, {"CMakeLists.txt"}), "src")
            /\ pc' = "pc_cmake_inc"
            /\ NoRaise
       ELSE /\ Raise("FileNotFoundError")
            /\ UNCHANGED destFiles
    /\ UNCHANGED <<PcVars, destDirs, cfiles, hfiles>>

CopyCMakeInclude ==
    /\ pc = "pc_cmake_inc"
    /\ IF HasFile(OsqpInclude, "CMakeLists.txt")
       THEN /\ destFiles' = CopyGroup(destFiles, Group(OsqpInclude, {"CMakeLists.txt"}),
                                      "include")
            /\ pc' = "setup"
            /\ NoRaise
       ELSE /\ Raise("FileNotFoundError")
            /\ UNCHANGED destFiles
    /\ UNCHANGED <<PcVars, destDirs, cfiles, hfiles>>

(***************************************************************************)
(* setup(..., cmdclass={'build_ext': CMakeBuild}, ext_modules=[...])       *)
(***************************************************************************)
ext_modules == <<"osqp._osqp", "osqp.spam", "osqp.ext">>

current_dir      == "current_dir"
osqp_ext_src_dir == "src/extension/src"
osqp_build_dir   == "osqp_sources/build"
osqp2_ext_src_dir == "src/extension2/src"
osqp2_build_dir  == "osqp2_sources/build"
build_temp       == "build/temp"

ExitCodes == {0, 1}

\* a relative path as the process resolves it against its working directory
Resolve(dir, rel) == IF dir = current_dir THEN rel ELSE Join(dir, rel)

\* os.path.join(*parts)
RECURSIVE JoinAll(_)
JoinAll(parts) ==
    IF Len(parts) = 1 THEN parts[1] ELSE Join(parts[1], JoinAll(Tail(parts)))

Ext == ext_modules[extIdx]

Log(kind) == events' = Append(events, [ext |-> Ext, kind |-> kind])

BldVars == <<envVars, run, profVars, snapVars, prevSnap>>

\* setup() runs build_ext, which calls build_extension for each of ext_modules in turn
Setup ==
    /\ pc = "setup"
    /\ extIdx' = 1
    /\ pc' = "dispatch"
    /\ NoRaise
    /\ UNCHANGED <<BldVars, src_dir, build_dir, cwd, buildDirs, archives, libCopies,
                   cfgExit, bldExit, events>>

\* build_extension: choice of the strategy by the extension's name
Dispatch ==
    /\ pc = "dispatch"
    /\ IF Ext = "osqp._osqp"
       THEN /\ src_dir' = osqp_ext_src_dir
            /\ build_dir' = osqp_build_dir
            /\ pc' = "l_mkdir"
       ELSE IF Ext = "osqp.spam"
       THEN /\ src_dir' = osqp2_ext_src_dir
            /\ build_dir' = osqp2_build_dir
            /\ pc' = "l_mkdir"
       ELSE /\ UNCHANGED <<src_dir, build_dir>>
            /\ pc' = "d_prepare"
    /\ NoRaise
    /\ UNCHANGED <<BldVars, extIdx, cwd, buildDirs, archives, libCopies,
                   cfgExit, bldExit, events>>

\* build_extension_legacy: recreate the build directory and enter it
LegacyMkdir ==
    /\ pc = "l_mkdir"
    /\ LET d == Resolve(cwd, build_dir)
       IN  /\ archives' = IF d \in buildDirs THEN {a \in archives : a.dir # d} ELSE archives
           /\ buildDirs' = buildDirs \cup {d}
           /\ cwd' = d
    /\ cfgExit' = 0
    /\ bldExit' = 0
    /\ Log("recreate")
    /\ pc' = "l_probe"
    /\ NoRaise
    /\ UNCHANGED <<BldVars, extIdx, src_dir, build_dir, libCopies>>

\* the except clause lets the build go on without cmake
LegacyProbe_Swallow ==
    /\ pc = "l_probe"
    /\ Log("probe")
    /\ pc' = "l_configure"
    /\ NoRaise
    /\ UNCHANGED <<BldVars, extIdx, src_dir, build_dir, cwd, buildDirs, archives,
                   libCopies, cfgExit, bldExit>>

\* check_output(['cmake', '--version']); OSError becomes RuntimeError
LegacyProbe ==
    /\ pc = "l_probe"
    /\ Log("probe")
    /\ IF cmakeInstalled
       THEN /\ pc' = "l_configure"
            /\ NoRaise
       ELSE Raise("RuntimeError")
    /\ UNCHANGED <<BldVars, extIdx, src_dir, build_dir, cwd, buildDirs, archives,
                   libCopies, cfgExit, bldExit>>

\* call(['cmake'] + cmake_args + ['..']): the exit status is dropped; a cmake that cannot
\* be started makes call raise OSError
LegacyConfigure ==
    /\ pc = "l_configure"
    /\ Log("configure")
    /\ IF cmakeInstalled
       THEN /\ \E code \in ExitCodes : cfgExit' = code
            /\ pc' = "l_build"
            /\ NoRaise
       ELSE /\ Raise("FileNotFoundError")
            /\ UNCHANGED cfgExit
    /\ UNCHANGED <<BldVars, extIdx, src_dir, build_dir, cwd, buildDirs, archives,
                   libCopies, bldExit>>

\* call(['cmake', '--build', '.', '--target', 'osqpstatic', ...]): the exit status is
\* dropped; the archive appears under the working directory only when both commands
\* succeeded (the step is reached only past a configure command that could be started)
LegacyBuild ==
    /\ pc = "l_build"
    /\ \E code \in ExitCodes, produced \in BOOLEAN :
          /\ (produced => cfgExit = 0 /\ code = 0)
          /\ bldExit' = code
          /\ archives' =
               IF produced
               THEN archives \cup
                      {[dir |-> cwd,
                        path |-> JoinAll(<<cwd, "out">> \o lib_subdir \o <<lib_name>>)]}
               ELSE archives
    /\ Log("build")
    /\ pc' = "l_chdir"
    /\ NoRaise
    /\ UNCHANGED <<BldVars, extIdx, src_dir, build_dir, cwd, buildDirs, libCopies, cfgExit>>

\* os.chdir(current_dir)
LegacyChdirBack ==
    /\ pc = "l_chdir"
    /\ cwd' = current_dir
    /\ pc' = "l_copy"
    /\ NoRaise
    /\ UNCHANGED <<BldVars, extIdx, src_dir, build_dir, buildDirs, archives, libCopies,
                   cfgExit, bldExit, events>>

\* a missing archive is skipped and the build goes on
LegacyCopy_IgnoreMissing ==
    /\ pc = "l_copy"
    /\ LET lib_origin == Resolve(cwd, JoinAll(<<build_dir, "out">> \o lib_subdir \o <<lib_name>>))
       IN  IF \E a \in archives : a.path = lib_origin
           THEN /\ libCopies' = libCopies \cup {Resolve(cwd, Join(src_dir, lib_name))}
                /\ Log("copy")
           ELSE UNCHANGED <<libCopies, events>>
    /\ pc' = "host"
    /\ NoRaise
    /\ UNCHANGED <<BldVars, extIdx, src_dir, build_dir, cwd, buildDirs, archives,
                   cfgExit, bldExit>>

\* copyfile(lib_origin, os.path.join(src_dir, lib_name))
LegacyCopy ==
    /\ pc = "l_copy"
    /\ LET lib_origin == Resolve(cwd, JoinAll(<<build_dir, "out">> \o lib_subdir \o <<lib_name>>))
       IN  IF \E a \in archives : a.path = lib_origin
           THEN /\ libCopies' = libCopies \cup {Resolve(cwd, Join(src_dir, lib_name))}
                /\ Log("copy")
                /\ pc' = "host"
                /\ NoRaise
           ELSE /\ Raise("FileNotFoundError")
                /\ UNCHANGED <<libCopies, events>>
    /\ UNCHANGED <<BldVars, extIdx, src_dir, build_dir, cwd, buildDirs, archives,
                   cfgExit, bldExit>>

\* build_extension_pybind11: arguments, and os.makedirs(self.build_temp) when absent
DirectPrepare ==
    /\ pc = "d_prepare"
    /\ buildDirs' = buildDirs \cup {Resolve(cwd, build_temp)}
    /\ pc' = "d_configure"
    /\ NoRaise
    /\ UNCHANGED <<BldVars, extIdx, src_dir, build_dir, cwd, archives, libCopies,
                   cfgExit, bldExit, events>>

\* check_call(['cmake', ext.sourcedir] + cmake_args, cwd=self.build_temp)
DirectConfigure ==
    /\ pc = "d_configure"
    /\ \E code \in ExitCodes :
          /\ cfgExit' = code
          /\ IF ~cmakeInstalled THEN Raise("FileNotFoundError")
             ELSE IF code # 0 THEN Raise("CalledProcessError")
             ELSE pc' = "d_build" /\ NoRaise
    /\ Log("configure")
    /\ UNCHANGED <<BldVars, extIdx, src_dir, build_dir, cwd, buildDirs, archives,
                   libCopies, bldExit>>

\* check_call(['cmake', '--build', '.'] + build_args, cwd=self.build_temp)
DirectBuild ==
    /\ pc = "d_build"
    /\ \E code \in ExitCodes :
          /\ bldExit' = code
          /\ IF code # 0 THEN Raise("CalledProcessError")
             ELSE pc' = "host" /\ NoRaise
    /\ Log("build")
    /\ UNCHANGED <<BldVars, extIdx, src_dir, build_dir, cwd, buildDirs, archives,
                   libCopies, cfgExit>>

\* super().build_extension(ext): the host packaging tool's compile/link step, after
\* which build_ext goes on to the next extension
HostBuild ==
    /\ pc = "host"
    /\ Log("host")
    /\ \E ok \in BOOLEAN :
          IF ~ok THEN Raise("CompileError") /\ UNCHANGED extIdx
          ELSE IF extIdx < Len(ext_modules)
          THEN extIdx' = extIdx + 1 /\ pc' = "dispatch" /\ NoRaise
          ELSE UNCHANGED extIdx /\ pc' = "exit" /\ NoRaise
    /\ UNCHANGED <<BldVars, src_dir, build_dir, cwd, buildDirs, archives, libCopies,
                   cfgExit, bldExit>>

(***************************************************************************)
(* The script run again on what the previous invocation left on disk       *)
(***************************************************************************)
PreparePcs == {"pc_root", "pc_cfiles", "pc_cdir", "pc_copy_c", "pc_hfiles", "pc_hdir",
               "pc_copy_h", "pc_confdir", "pc_copy_conf", "pc_cmake_src", "pc_cmake_inc"}

PrepareCompleted == pc \notin PreparePcs /\ failedAt \notin PreparePcs

\* the state of a freshly started interpreter, before line 43
ModuleStart(p, ca, cbf, ln, ls, cpa, libs, cf, hf, ei, sd, bd, wd, ce, be, ev, er, fa) ==
    /\ p = "select_platform"
    /\ ca = <<>> /\ cbf = <<>> /\ ln = "" /\ ls = <<>>
    /\ cpa = <<>> /\ libs = <<>>
    /\ cf = <<>> /\ hf = <<>>
    /\ ei = 0 /\ sd = "" /\ bd = ""
    /\ wd = current_dir
    /\ ce = 0 /\ be = 0
    /\ ev = <<>>
    /\ er = "none" /\ fa = "none"

Restart ==
    /\ pc = "exit"
    /\ run < MaxRuns
    /\ run' = run + 1
    /\ prevSnap' = [ok |-> PrepareCompleted, files |-> IF PrepareCompleted THEN destFiles ELSE {}]
    /\ ModuleStart(pc', cmake_args', cmake_build_flags', lib_name', lib_subdir', compile_args',
                   libraries', cfiles', hfiles', extIdx', src_dir', build_dir', cwd',
                   cfgExit', bldExit', events', error', failedAt')
    /\ UNCHANGED <<envVars, destDirs, destFiles, buildDirs, archives, libCopies>>

(***************************************************************************)
(* Initial states                                                          *)
(***************************************************************************)
Dir(names) == [exists |-> TRUE, files |-> names]
Missing    == [exists |-> FALSE, files |-> {}]

NominalTree ==
    [d \in SourceDirs |->
        CASE d = OsqpSrc       -> Dir({"osqp.c", "cs.c", "CMakeLists.txt"})
          [] d = OsqpInclude   -> Dir({"osqp.h", "cs.h", "CMakeLists.txt"})
          [] d = OsqpConfigure -> Dir({"osqp_configure.h.in"})
          [] d = QdldlDir      -> Dir({"qdldl_interface.c", "qdldl_interface.h"})
          [] d = QdSrc         -> Dir({"qdldl.c"})
          [] d = QdInclude     -> Dir({"qdldl.h"})
          [] d = QdConfigure   -> Dir({"qdldl_types.h.in"})]

DirChoices(d) ==
    CASE d = OsqpSrc       -> {Missing, Dir({"osqp.c", "cs.c", "CMakeLists.txt"}),
                               Dir({"osqp.c", "CMakeLists.txt"}), Dir({"osqp.c", "cs.c"})}
      [] d = OsqpInclude   -> {Missing, Dir({"osqp.h", "cs.h", "CMakeLists.txt"}),
                               Dir({"osqp.h", "osqp_configure.h", "CMakeLists.txt"}),
                               Dir({"osqp.h"})}
      [] d = OsqpConfigure -> {Dir({}), Dir({"osqp_configure.h.in"})}
      [] d = QdldlDir      -> {Missing, Dir({"qdldl_interface.c", "qdldl_interface.h"}),
                               Dir({"qdldl_interface.c", "qdldl_interface.h", "osqp.c"})}
      [] d = QdSrc         -> {Missing, Dir({"qdldl.c"}), Dir({"qdldl.c", "README.md"})}
      [] d = QdInclude     -> {Missing, Dir({"qdldl.h"}), Dir({"qdldl.h", "qdldl_types.h"})}
      [] d = QdConfigure   -> {Dir({}), Dir({"qdldl_types.h.in"})}

SourceTrees ==
    {[d \in SourceDirs |->
        CASE d = OsqpSrc       -> a
          [] d = OsqpInclude   -> b
          [] d = OsqpConfigure -> c
          [] d = QdldlDir      -> q
          [] d = QdSrc         -> r
          [] d = QdInclude     -> s
          [] d = QdConfigure   -> t] :
        a \in DirChoices(OsqpSrc), b \in DirChoices(OsqpInclude),
        c \in DirChoices(OsqpConfigure), q \in DirChoices(QdldlDir),
        r \in DirChoices(QdSrc), s \in DirChoices(QdInclude),
        t \in DirChoices(QdConfigure)}

\* what an earlier run against another source tree may have left under the destination
StaleFiles ==
    {[sub |-> "root", name |-> "notes.txt", from |-> "stale"],
     [sub |-> "src", name |-> "old.c", from |-> "stale"],
     [sub |-> "src", name |-> "osqp.c", from |-> "stale"],
     [sub |-> "include", name |-> "old.h", from |-> "stale"],
     [sub |-> "configure", name |-> "old.h.in", from |-> "stale"]}

InitDisk ==
    /\ \/ destDirs = {} /\ destFiles = {}
       \/ destDirs = {"root", "src", "include", "configure"} /\ destFiles = StaleFiles
    /\ buildDirs = {} /\ archives = {} /\ libCopies = {}
    /\ prevSnap = [ok |-> FALSE, files |-> {}]
    /\ run = 1

Init ==
    /\ os \in {"Windows", "Linux", "Darwin", "FreeBSD"}
    /\ maxsize \in {MaxSize32, MaxSize64}
    /\ long \in BOOLEAN
    /\ debug \in BOOLEAN
    /\ cmakeInstalled \in BOOLEAN
    /\ tree = NominalTree
    /\ InitDisk
    /\ ModuleStart(pc, cmake_args, cmake_build_flags, lib_name, lib_subdir, compile_args,
                   libraries, cfiles, hfiles, extIdx, src_dir, build_dir, cwd,
                   cfgExit, bldExit, events, error, failedAt)

InitCodegen ==
    /\ os = "Linux"
    /\ maxsize = MaxSize64
    /\ long = FALSE
    /\ debug = FALSE
    /\ cmakeInstalled = TRUE
    /\ tree \in SourceTrees
    /\ InitDisk
    /\ ModuleStart(pc, cmake_args, cmake_build_flags, lib_name, lib_subdir, compile_args,
                   libraries, cfiles, hfiles, extIdx, src_dir, build_dir, cwd,
                   cfgExit, bldExit, events, error, failedAt)

Next ==
    \/ SelectPlatform \/ LongFlag \/ OptimizerFlags \/ ExternalLibraries
    \/ RecreateRoot \/ ListCFiles \/ RecreateCDir \/ CopyCFiles
    \/ ListHFiles \/ RecreateHDir \/ CopyHFiles
    \/ RecreateConfigureDir \/ CopyConfigureFiles \/ CopyCMakeSrc \/ CopyCMakeInclude
    \/ Setup \/ Dispatch
    \/ LegacyMkdir \/ LegacyProbe \/ LegacyConfigure \/ LegacyBuild
    \/ LegacyChdirBack \/ LegacyCopy
    \/ DirectPrepare \/ DirectConfigure \/ DirectBuild
    \/ HostBuild
    \/ Restart

Spec == Init /\ [][Next]_vars

SpecCodegen == InitCodegen /\ [][Next]_vars

(***************************************************************************)
(* Claims                                                                  *)
(***************************************************************************)
LegacyTargets == {"osqp._osqp", "osqp.spam"}
SupportedOS   == {"Windows", "Linux", "Darwin"}

\* C1: a non-zero exit of the configure or build command of build_extension_legacy is
\* never reported as the copy step's missing-archive (file-not-found) failure: when
\* copyfile raises FileNotFoundError, both external commands had exited with status 0.
C1_BuildFailureNotReportedAsMissingArchive ==
    (error = "FileNotFoundError" /\ failedAt = "l_copy") => (cfgExit = 0 /\ bldExit = 0)

\* C2: without cmake, build_extension_legacy ends with the build-tool-required error
\* (RuntimeError) raised by the version probe, the probe is the last event of the run, and
\* the run holds no configure, build or copy event and no directory recreation after it.
C2_MissingToolAbortsAtProbe ==
    ~cmakeInstalled =>
        /\ \A i \in DOMAIN events :
              /\ events[i].kind \in {"recreate", "probe"}
              /\ events[i].kind = "probe" =>
                    (i = Len(events) /\ pc = "exit" /\ error = "RuntimeError")
        /\ pc = "exit" => (error = "RuntimeError" /\ failedAt = "l_probe")

C2_Witness ==
    /\ ~cmakeInstalled
    /\ pc = "exit"
    /\ error = "RuntimeError"
    /\ events = <<[ext |-> "osqp._osqp", kind |-> "recreate"],
                  [ext |-> "osqp._osqp", kind |-> "probe"]>>

\* C3: after prepare_codegen completes, every file of the snapshot's src subdirectory
\* ends in .c and every file of its include subdirectory ends in .h, and none bears a
\* denylisted name, whichever input directory it came from.  The two build-description
\* files that lines 187-190 place there by name are left out of the statement.
C3_SnapshotFilesFiltered ==
    pc = "setup" =>
        \A f \in destFiles :
            /\ (f.sub = "src" /\ f.name # "CMakeLists.txt") =>
                   (EndsWith(f.name, ".c") /\ f.name \notin CDenylist)
            /\ (f.sub = "include" /\ f.name # "CMakeLists.txt") =>
                   (EndsWith(f.name, ".h") /\ f.name \notin HDenylist)

\* the tree prepare_codegen builds from an empty destination, as a function of the
\* source tree alone
SnapshotOf ==
    LET c  == CopyFiles({}, <<CFilesOsqp, CFilesQdldl, CFilesQdSrc>>, "src")
        h  == CopyFiles(c, <<HFilesOsqp, HFilesQdldl, HFilesQdInc>>, "include")
        k  == CopyFiles(h, <<Group(OsqpConfigure, {"osqp_configure.h.in"}),
                             Group(QdConfigure, {"qdldl_types.h.in"})>>, "configure")
        ms == CopyGroup(k, Group(OsqpSrc, {"CMakeLists.txt"}), "src")
    IN  CopyGroup(ms, Group(OsqpInclude, {"CMakeLists.txt"}), "include")

\* C4: whatever was under the destination root before, after a successful prepare_codegen
\* the destination holds no file from before the run, holds exactly the tree the current
\* source tree determines, and, when the previous invocation also succeeded on the same
\* source tree, holds the same tree as that invocation left.
C4_SnapshotIndependentOfPriorState ==
    pc = "setup" =>
        /\ \A f \in destFiles : f.from # "stale"
        /\ destFiles = SnapshotOf
        /\ destDirs = {"root", "src", "include", "configure"}
        /\ prevSnap.ok => destFiles = prevSnap.files

C4_Witness ==
    /\ pc = "setup"
    /\ run = 2
    /\ prevSnap.ok
    /\ prevSnap.files # {}
    /\ destFiles = prevSnap.files

\* C5: when prepare_codegen aborts on a missing source asset, nothing of a snapshot is
\* left under the destination root (no part of the src, include and configure contents
\* without the rest).
C5_NoPartialSnapshotOnAbort ==
    (pc = "exit" /\ failedAt \in PreparePcs) => destFiles = {}

\* the argument that follows -G
Generator == cmake_args[(CHOOSE i \in DOMAIN cmake_args : cmake_args[i] = "-G") + 1]

StartsWith(f, pre) == Len(f) >= Len(pre) /\ SubSeq(f, 1, Len(pre)) = pre

ProfileResolved == pc \notin {"select_platform", "long_flag"}

\* C6 as stated: on windows the generator is "Visual-Studio-2015" with a "Win64" marker
\* iff 64-bit and the archive is osqp.lib; on linux and macos they are "Unix Makefiles"
\* and libosqp.a; -DDLONG=OFF is among the configuration arguments iff --long was not
\* passed.
C6_ProfileMatchesSpecTable ==
    (ProfileResolved /\ os \in SupportedOS) =>
        /\ IF os = "Windows"
           THEN /\ StartsWith(Generator, "Visual-Studio-2015")
                /\ EndsWith(Generator, "Win64") <=> Is64Bit(maxsize)
                /\ lib_name = "osqp.lib"
           ELSE /\ Generator = "Unix Makefiles"
                /\ lib_name = "libosqp.a"
        /\ "-DDLONG=OFF" \in Range(cmake_args) <=> ~long

\* C6 amended: as C6, with the windows generator being "Visual Studio 14 2015", followed
\* by " Win64" iff 64-bit.
C6_ProfileMatchesCode ==
    (ProfileResolved /\ os \in SupportedOS) =>
        /\ IF os = "Windows"
           THEN /\ Generator = (IF Is64Bit(maxsize) THEN "Visual Studio 14 2015 Win64"
                                                    ELSE "Visual Studio 14 2015")
                /\ lib_name = "osqp.lib"
           ELSE /\ Generator = "Unix Makefiles"
                /\ lib_name = "libosqp.a"
        /\ "-DDLONG=OFF" \in Range(cmake_args) <=> ~long

C6_Witness ==
    /\ pc = "setup"
    /\ os = "Windows"
    /\ maxsize = MaxSize64
    /\ long
    /\ Generator = "Visual Studio 14 2015 Win64"
    /\ "-DDLONG=OFF" \notin Range(cmake_args)

\* C7: on an operating system other than windows, linux and macos, platform resolution
\* fails with the unsupported-platform error: no profile is produced and no snapshot or
\* build step is executed.
C7_UnsupportedPlatformIsFatal ==
    os \notin SupportedOS =>
        /\ pc \in {"select_platform", "exit"}
        /\ pc = "exit" => error = "UnsupportedPlatform"
        /\ lib_name = ""
        /\ events = <<>>

\* C8: for a target built with the direct strategy the host packaging tool's compile/link
\* step is never invoked.
C8_DirectTargetHasNoHostStep ==
    \A i \in DOMAIN events :
        events[i].ext \notin LegacyTargets => events[i].kind # "host"

LegacyOrder == <<"recreate", "probe", "configure", "build", "copy", "host">>

EventsOf(e) == SelectSeq(events, LAMBDA x : x.ext = e)

\* C9: in every run the events of each legacy target are an initial part of: build
\* directory recreated, version probe, configure, build, archive copy, host compile/link
\* step, each once and in this order, and no event of another target falls between them;
\* so the host step of a legacy target is preceded by its archive copy in the same run.
C9_LegacyStepsInOrder ==
    /\ \A e \in LegacyTargets :
          /\ Len(EventsOf(e)) <= Len(LegacyOrder)
          /\ \A i \in DOMAIN EventsOf(e) : EventsOf(e)[i].kind = LegacyOrder[i]
    /\ \A i, j \in DOMAIN events :
          (i < j /\ events[i].ext = events[j].ext) =>
              \A k \in i..j : events[k].ext = events[i].ext

C9_Witness ==
    /\ Len(events) = 12
    /\ events[11] = [ext |-> "osqp.spam", kind |-> "copy"]
    /\ events[12] = [ext |-> "osqp.spam", kind |-> "host"]

\* C10: every exit from build_extension_legacy, by return or by a raised error, leaves the
\* working directory equal to current_dir.
C10_CwdRestoredOnEveryExit ==
    pc \notin {"l_probe", "l_configure", "l_build", "l_chdir"} => cwd = current_dir

====
